---------------------------- MODULE Spec2Model ----------------------------
(***************************************************************************)
(* Tasky, a command-line to-do list manager (src/index.js).                *)
(*                                                                         *)
(* The program keeps one lowdb document, db.data = { tasks: [...] }, in    *)
(* memory and writes the whole document to db.json after every mutation.   *)
(* Each menu entry is one handler; a handler runs to completion before the *)
(* menu is shown again, so one handler is one action here.                 *)
(*                                                                         *)
(* Representation.                                                         *)
(*  - A title is the sequence of its characters, so that trim() and        *)
(*    length are computed and not assumed.                                 *)
(*  - An id is Date.now().toString(); the decimal string of a number is    *)
(*    represented by the number (toString is injective).                   *)
(*  - createdAt is dayjs().format(), an ISO string with one-second         *)
(*    resolution; it is represented by the number of whole seconds.        *)
(*  - A due date is the string the user typed; dayjs's reading of it is    *)
(*    the table DayjsValue.                                                *)
(*  - The content of db.json is the document it serialises (JSON of        *)
(*    strings, numbers and booleans parses back to the same values).       *)
(***************************************************************************)
EXTENDS Integers, Sequences, FiniteSets, TLC

\* Bounds of the model.
MaxTasks == 2          \* Add is explored while the store holds fewer tasks
MaxClock == 1          \* Date.now() returns a value in 0..MaxClock
TicksPerSecond == 1    \* clock ticks per second of createdAt (1000 in the program)
MaxWriteFailures == 1  \* write faults the flaky disk of SpecIO injects
MaxListed == 3         \* length of the collections SpecList lists

VARIABLES
  pc,      \* "boot" | "menu" | "exited" | "crashed"  (main, mainMenu, process.exit)
  file,    \* db.json
  data,    \* db.data
  faults,  \* write faults the environment may still inject
  last     \* what the last handler reported to the user

vars == <<pc, file, data, faults, last>>

---------------------------------------------------------------------------
\* Input alphabets (what the user may type at a prompt).

Titles == { <<>>, <<" ">>, <<"a">> }
Descriptions == { "" }
DueInputs == { "2024-01-01", "soon" }
PriorityChoices == {1, 2, 3}
SortKeys == { "dueDate", "priority", "completed", "createdAt" }
Clock == 0..MaxClock

NaN == -1

\* dayjs(val).valueOf(), in days since the epoch, for the strings used here:
\* the REGEX_PARSE date forms are read as local midnight of that day, anything
\* else goes to new Date(val), which is Invalid Date for "soon" and "".
DayjsValue(val) ==
  CASE val = "2024-01-01" -> 19723
    [] val = "2024-1-1"   -> 19723
    [] val = "2024-01-02" -> 19724
    [] OTHER              -> NaN

DayjsIsValid(val) == DayjsValue(val) # NaN

\* dayjs().format() at clock value t: the ISO string of t's second.
DayjsFormat(t) == t \div TicksPerSecond

\* dayjs(createdAt).valueOf(): the first tick of that second.
CreatedValue(c) == c * TicksPerSecond

RECURSIVE TrimStart(_)
TrimStart(s) ==
  IF s # <<>> /\ Head(s) = " " THEN TrimStart(Tail(s)) ELSE s

RECURSIVE TrimEnd(_)
TrimEnd(s) ==
  IF s # <<>> /\ s[Len(s)] = " " THEN TrimEnd(SubSeq(s, 1, Len(s) - 1)) ELSE s

\* String.prototype.trim
Trim(s) == TrimEnd(TrimStart(s))

---------------------------------------------------------------------------
\* taskSchema.parse: true when zod accepts the object.
TaskSchemaOk(task) ==
  /\ Len(task.title) >= 1
  /\ DayjsIsValid(task.dueDate)
  /\ task.priority >= 1 /\ task.priority <= 3
  /\ task.completed \in BOOLEAN

\* The prompt validators of addTask.
TitlePromptOk(input) == Trim(input) # <<>>
DatePromptOk(input) == DayjsIsValid(input)

NewTask(t, answers) ==
  [ id          |-> t,
    title       |-> answers.title,
    description |-> IF answers.description = "" THEN "" ELSE answers.description,
    dueDate     |-> answers.dueDate,
    createdAt   |-> DayjsFormat(t),
    priority    |-> answers.priority,
    completed   |-> FALSE ]

Answers(title, description, dueDate, priority) ==
  [ title |-> title, description |-> description,
    dueDate |-> dueDate, priority |-> priority ]

---------------------------------------------------------------------------
\* Documents.

\* db.data: null, or an object whose `tasks` is an array or is undefined.
Doc(ts) == [ isNull |-> FALSE, hasTasks |-> TRUE, tasks |-> ts ]
DocWithoutTasks == [ isNull |-> FALSE, hasTasks |-> FALSE, tasks |-> <<>> ]
Null == [ isNull |-> TRUE, hasTasks |-> FALSE, tasks |-> <<>> ]

\* db.data ||= { tasks: [] }
OrDefault(d) == IF d.isNull THEN Doc(<<>>) ELSE d

\* db.read(): JSONFile.read gives null when db.json does not exist.
ReadFile(f) == IF f.kind = "absent" THEN Null ELSE f.doc

FileAbsent == [ kind |-> "absent", doc |-> Null ]
FileCorrupt == [ kind |-> "corrupt", doc |-> Null ]
FileJson(d) == [ kind |-> "json", doc |-> d ]

Report(op, res, arg) ==
  [ op |-> op, res |-> res, arg |-> arg,
    sortBy |-> "", showCompleted |-> TRUE, rows |-> <<>> ]

\* The outcomes db.write() may have now.
WriteOutcomes == IF faults > 0 THEN BOOLEAN ELSE {TRUE}

\* await db.write() inside a handler's try block, reporting as `op`.
Write(op, arg, ok) ==
  /\ file' = IF ok THEN FileJson(data') ELSE file
  /\ faults' = IF ok THEN faults ELSE faults - 1
  /\ last' = Report(op, IF ok THEN "ok" ELSE "writefail", arg)

\* A TypeError thrown outside any try block: main's catch, process.exit(1).
Crash(op) ==
  /\ pc' = "crashed"
  /\ last' = Report(op, "error", 0)
  /\ UNCHANGED <<file, data, faults>>

\* A handler that returns without touching the store.
Return(op, res, arg) ==
  /\ last' = Report(op, res, arg)
  /\ UNCHANGED <<pc, file, data, faults>>

---------------------------------------------------------------------------
Ids(ts) == { ts[i].id : i \in 1..Len(ts) }

\* Array.prototype.findIndex((t) => t.id === taskId), 1-based; 0 when none.
FindIndex(ts, taskId) ==
  IF taskId \in Ids(ts)
  THEN CHOOSE i \in 1..Len(ts) :
         /\ ts[i].id = taskId
         /\ \A j \in 1..(i - 1) : ts[j].id # taskId
  ELSE 0

IsCompleted(task) == task.completed
IsIncomplete(task) == ~task.completed

\* main: initializeDB
InitializeDB ==
  /\ pc = "boot"
  /\ IF file.kind = "corrupt"
     THEN /\ pc' = "crashed"
          /\ last' = Report("boot", "error", 0)
          /\ UNCHANGED <<file, data, faults>>
     ELSE \E ok \in WriteOutcomes :
            /\ data' = OrDefault(ReadFile(file))
            /\ pc' = IF ok THEN "menu" ELSE "crashed"
            /\ Write("boot", 0, ok)

\* addTask
AddTask ==
  /\ pc = "menu"
  /\ Len(data.tasks) < MaxTasks
  /\ \E title \in Titles, description \in Descriptions,
        dueDate \in DueInputs, priority \in PriorityChoices, t \in Clock :
       /\ TitlePromptOk(title)
       /\ DatePromptOk(dueDate)
       /\ LET newTask == NewTask(t, Answers(title, description, dueDate, priority))
          IN IF ~TaskSchemaOk(newTask)
             THEN Return("add", "invalid", t)
             ELSE IF ~data.hasTasks
             THEN Return("add", "error", t)
             ELSE \E ok \in WriteOutcomes :
                    /\ data' = Doc(Append(data.tasks, newTask))
                    /\ Write("add", t, ok)
                    /\ UNCHANGED pc

\* tasksToDisplay.filter(task => !task.completed) when showCompleted is false
FilterShown(ts, showCompleted) ==
  IF showCompleted THEN ts ELSE SelectSeq(ts, IsIncomplete)

\* a[sortBy] read by dayjs, for the two date keys
DateValue(task, sortBy) ==
  IF sortBy = "dueDate" THEN DayjsValue(task.dueDate) ELSE CreatedValue(task.createdAt)

\* dayjs(x).isBefore(dayjs(y)): false when either is invalid
IsBefore(x, y) == x # NaN /\ y # NaN /\ x < y

\* The comparator with its date branch written from the other side
\* (isAfter ? 1 : -1): two equal dates then compare as -1.
CompareTiesFirst(a, b, sortBy) ==
  IF sortBy = "priority"
  THEN a.priority - b.priority
  ELSE IF sortBy = "completed"
  THEN (IF a.completed = b.completed THEN 0 ELSE IF a.completed THEN 1 ELSE -1)
  ELSE (IF IsBefore(DateValue(b, sortBy), DateValue(a, sortBy)) THEN 1 ELSE -1)

\* The comparator handed to sort().
Compare(a, b, sortBy) ==
  IF sortBy = "priority"
  THEN a.priority - b.priority
  ELSE IF sortBy = "completed"
  THEN (IF a.completed = b.completed THEN 0 ELSE IF a.completed THEN 1 ELSE -1)
  ELSE (IF IsBefore(DateValue(a, sortBy), DateValue(b, sortBy)) THEN -1 ELSE 1)

(***************************************************************************)
(* Array.prototype.sort as node runs it (V8's TimSort).  An array shorter  *)
(* than 64 elements is one run: the longest ascending or strictly          *)
(* descending prefix is found (and reversed when descending), and the rest *)
(* is added by binary insertion.  Every test V8 makes on the comparator's  *)
(* result is `order < 0`.                                                  *)
(***************************************************************************)
Reverse(arr) == [ i \in 1..Len(arr) |-> arr[Len(arr) + 1 - i] ]

\* CountAndMakeRun's loop: the run's length, given the run so far ends at idx - 1.
RECURSIVE RunLength(_, _, _, _)
RunLength(arr, idx, isDescending, sortBy) ==
  IF idx > Len(arr)
  THEN Len(arr)
  ELSE LET order == Compare(arr[idx], arr[idx - 1], sortBy)
       IN IF (isDescending /\ order >= 0) \/ (~isDescending /\ order < 0)
          THEN idx - 1
          ELSE RunLength(arr, idx + 1, isDescending, sortBy)

\* BinaryInsertionSort's search: where the pivot goes in arr[left..right-1].
RECURSIVE InsertionPoint(_, _, _, _, _)
InsertionPoint(arr, pivot, left, right, sortBy) ==
  IF left >= right
  THEN left
  ELSE LET mid == left + ((right - left) \div 2)
       IN IF Compare(pivot, arr[mid], sortBy) < 0
          THEN InsertionPoint(arr, pivot, left, mid, sortBy)
          ELSE InsertionPoint(arr, pivot, mid + 1, right, sortBy)

\* BinaryInsertionSort: arr[1..start-1] is sorted; insert arr[start..Len(arr)].
RECURSIVE BinaryInsertionSort(_, _, _)
BinaryInsertionSort(arr, start, sortBy) ==
  IF start > Len(arr)
  THEN arr
  ELSE LET pivot == arr[start]
           left  == InsertionPoint(arr, pivot, 1, start, sortBy)
           moved == [ p \in 1..Len(arr) |->
                        IF p < left \/ p > start THEN arr[p]
                        ELSE IF p = left THEN pivot
                        ELSE arr[p - 1] ]
       IN BinaryInsertionSort(moved, start + 1, sortBy)

ArraySort(arr, sortBy) ==
  IF Len(arr) < 2
  THEN arr
  ELSE LET isDescending == Compare(arr[2], arr[1], sortBy) < 0
           run == RunLength(arr, 3, isDescending, sortBy)
           made == IF isDescending
                   THEN Reverse(SubSeq(arr, 1, run)) \o SubSeq(arr, run + 1, Len(arr))
                   ELSE arr
       IN BinaryInsertionSort(made, run + 1, sortBy)

\* listTasks
ListTasks ==
  /\ pc = "menu"
  /\ IF ~data.hasTasks
     THEN Crash("list")
     ELSE IF Len(data.tasks) = 0
     THEN Return("list", "none", 0)
     ELSE \E sortBy \in SortKeys, showCompleted \in BOOLEAN :
            /\ last' = [ op |-> "list", res |-> "ok", arg |-> 0,
                         sortBy |-> sortBy, showCompleted |-> showCompleted,
                         rows |-> ArraySort(FilterShown(data.tasks, showCompleted),
                                            sortBy) ]
            /\ UNCHANGED <<pc, file, data, faults>>

\* The updated task built field by field without the spread: completed falls
\* back to its initial value.
UpdatedTaskNoSpread(task, answers) ==
  [ id          |-> task.id,
    title       |-> answers.title,
    description |-> answers.description,
    dueDate     |-> answers.dueDate,
    createdAt   |-> task.createdAt,
    priority    |-> answers.priority,
    completed   |-> FALSE ]

\* { ...task, title, description, dueDate, priority }
UpdatedTask(task, answers) ==
  [ task EXCEPT !.title = answers.title,
                !.description = answers.description,
                !.dueDate = answers.dueDate,
                !.priority = answers.priority ]

\* The replacement done as remove-then-push: the task moves to the end.
MoveToEnd(ts, taskIndex, value) ==
  Append(SubSeq(ts, 1, taskIndex - 1) \o SubSeq(ts, taskIndex + 1, Len(ts)), value)

\* db.data.tasks[taskIndex] = value
SetAt(ts, taskIndex, value) == [ ts EXCEPT ![taskIndex] = value ]

\* updateTask
UpdateTask ==
  /\ pc = "menu"
  /\ IF ~data.hasTasks
     THEN Crash("update")
     ELSE IF Len(data.tasks) = 0
     THEN Return("update", "none", 0)
     ELSE \E taskId \in Ids(data.tasks), title \in Titles,
             description \in Descriptions, dueDate \in DueInputs,
             priority \in PriorityChoices :
            /\ DatePromptOk(dueDate)
            /\ LET task == data.tasks[FindIndex(data.tasks, taskId)]
                   updatedTask ==
                     UpdatedTask(task, Answers(title, description, dueDate, priority))
               IN IF ~TaskSchemaOk(updatedTask)
                  THEN Return("update", "invalid", taskId)
                  ELSE \E ok \in WriteOutcomes :
                         /\ data' = Doc(SetAt(data.tasks,
                                              FindIndex(data.tasks, taskId),
                                              updatedTask))
                         /\ Write("update", taskId, ok)
                         /\ UNCHANGED pc

\* The choices of markComplete taken from all tasks.
AllTasks(ts) == ts

\* db.data.tasks.filter((task) => !task.completed)
IncompleteTasks(ts) == SelectSeq(ts, IsIncomplete)

\* db.data.tasks[taskIndex].completed = true
SetCompleted(ts, taskIndex) == [ ts EXCEPT ![taskIndex].completed = TRUE ]

\* markComplete
MarkComplete ==
  /\ pc = "menu"
  /\ IF ~data.hasTasks
     THEN Crash("complete")
     ELSE IF Len(IncompleteTasks(data.tasks)) = 0
     THEN Return("complete", "none", 0)
     ELSE \E taskId \in Ids(IncompleteTasks(data.tasks)), ok \in WriteOutcomes :
            /\ data' = Doc(SetCompleted(data.tasks, FindIndex(data.tasks, taskId)))
            /\ Write("complete", taskId, ok)
            /\ UNCHANGED pc

\* db.data.tasks.filter((task) => task.id !== taskId)
WithoutId(ts, taskId) == SelectSeq(ts, LAMBDA task : task.id # taskId)

\* removeTask
RemoveTask ==
  /\ pc = "menu"
  /\ IF ~data.hasTasks
     THEN Crash("remove")
     ELSE IF Len(data.tasks) = 0
     THEN Return("remove", "none", 0)
     ELSE \E taskId \in Ids(data.tasks), confirm \in BOOLEAN :
            IF ~confirm
            THEN Return("remove", "cancel", taskId)
            ELSE \E ok \in WriteOutcomes :
                   /\ data' = Doc(WithoutId(data.tasks, taskId))
                   /\ Write("remove", taskId, ok)
                   /\ UNCHANGED pc

\* db.data.tasks.filter((task) => task.completed)
CompletedTasks(ts) == SelectSeq(ts, IsCompleted)

\* The filter of clearCompleted with its test inverted.
KeepCompleted(ts) == SelectSeq(ts, IsCompleted)

\* db.data.tasks.filter((task) => !task.completed)
WithoutCompleted(ts) == SelectSeq(ts, IsIncomplete)

\* clearCompleted; the count it reports is completedTasks.length
ClearCompleted ==
  /\ pc = "menu"
  /\ IF ~data.hasTasks
     THEN Crash("clear")
     ELSE LET completedTasks == CompletedTasks(data.tasks)
          IN IF Len(completedTasks) = 0
             THEN Return("clear", "none", 0)
             ELSE \E confirm \in BOOLEAN :
                    IF ~confirm
                    THEN Return("clear", "cancel", Len(completedTasks))
                    ELSE \E ok \in WriteOutcomes :
                           /\ data' = Doc(WithoutCompleted(data.tasks))
                           /\ Write("clear", Len(completedTasks), ok)
                           /\ UNCHANGED pc

\* mainMenu: case 'exit'
Exit ==
  /\ pc = "menu"
  /\ pc' = "exited"
  /\ last' = Report("exit", "ok", 0)
  /\ UNCHANGED <<file, data, faults>>

---------------------------------------------------------------------------
\* db.json as the program may find it at startup.
InitialFiles ==
  { FileAbsent, FileCorrupt, FileJson(DocWithoutTasks), FileJson(Doc(<<>>)) }

InitWith(n) ==
  /\ pc = "boot"
  /\ file \in InitialFiles
  /\ data = Null
  /\ faults = n
  /\ last = Report("none", "ok", 0)

\* A disk that takes every write.
Init == InitWith(0)

\* A disk on which up to MaxWriteFailures writes fail.
InitIO == InitWith(MaxWriteFailures)

Next ==
  \/ InitializeDB
  \/ AddTask
  \/ ListTasks
  \/ UpdateTask
  \/ MarkComplete
  \/ RemoveTask
  \/ ClearCompleted
  \/ Exit

Spec == Init /\ [][Next]_vars

SpecIO == InitIO /\ [][Next]_vars

---------------------------------------------------------------------------
\* Listing a stored collection: the store holds any sequence of up to MaxListed
\* tasks, each as addTask built it and markComplete may have left it.

ListedDues == { "2024-01-01", "2024-1-1", "2024-01-02" }

StoredTasks ==
  { [ NewTask(t, Answers(<<"a">>, "", dueDate, 2)) EXCEPT !.completed = c ] :
      t \in Clock, dueDate \in ListedDues, c \in BOOLEAN }

InitList ==
  /\ pc = "menu"
  /\ \E n \in 0..MaxListed : \E ts \in [1..n -> StoredTasks] :
       /\ data = Doc(ts)
       /\ file = FileJson(Doc(ts))
  /\ faults = 0
  /\ last = Report("none", "ok", 0)

SpecList == InitList /\ [][ListTasks]_vars

---------------------------------------------------------------------------
\* Properties.

tasks == data.tasks
Positions(ts) == 1..Len(ts)

\* The subsequence of ts at the positions K.
RECURSIVE Pick(_, _, _)
Pick(ts, K, i) ==
  IF i > Len(ts) THEN <<>>
  ELSE (IF i \in K THEN <<ts[i]>> ELSE <<>>) \o Pick(ts, K, i + 1)

\* after is before with some tasks taken out and the others untouched.
IsRemoval(before, after) ==
  \E K \in SUBSET Positions(before) : after = Pick(before, K, 1)

SameIdentity(a, b) == a.id = b.id /\ a.createdAt = b.createdAt

Mutating == { "add", "update", "complete", "remove", "clear" }

\* C1: no two tasks in the store share an id.
C1_UniqueIds ==
  \A i, j \in Positions(tasks) : i # j => tasks[i].id # tasks[j].id

\* C2: every task in the store has a title that is non-empty once trimmed, a
\* due date that parses, and a priority in {1,2,3}.
C2_StoredTasksValid ==
  \A i \in Positions(tasks) :
    /\ Trim(tasks[i].title) # <<>>
    /\ DayjsIsValid(tasks[i].dueDate)
    /\ tasks[i].priority \in {1, 2, 3}

\* C3: after a mutating operation whose persist step failed, the collection in
\* memory equals the collection last persisted.
C3_FailedPersistRolledBack ==
  (last.op \in Mutating /\ last.res = "writefail") => tasks = file.doc.tasks

C6_DeletionCorrect ==
  [][ /\ (last'.op = "remove" /\ last'.res = "ok") =>
            /\ last'.arg \notin Ids(data'.tasks)
            /\ IsRemoval(tasks, data'.tasks)
            /\ \A i \in Positions(tasks) :
                 tasks[i].id # last'.arg =>
                   \E j \in Positions(data'.tasks) : data'.tasks[j] = tasks[i]
      /\ (last'.op = "clear" /\ last'.res \in {"ok", "none"}) =>
            /\ \A j \in Positions(data'.tasks) : ~data'.tasks[j].completed
            /\ IsRemoval(tasks, data'.tasks)
            /\ last'.arg = Len(tasks) - Len(data'.tasks)
            /\ last'.arg = Cardinality({ i \in Positions(tasks) : tasks[i].completed })
    ]_vars

C6_Witness ==
  /\ last.op = "clear" /\ last.res = "ok" /\ last.arg >= 1
  /\ Len(tasks) >= 1

\* C7: a list sorted by dueDate or createdAt is in non-decreasing date order,
\* and the tasks of each date appear in the order the store holds them.
C7_DateSortStable ==
  (last.op = "list" /\ last.res = "ok" /\ last.sortBy \in {"dueDate", "createdAt"}) =>
    LET input == SelectSeq(tasks, LAMBDA t : last.showCompleted \/ ~t.completed)
        rows  == last.rows
        date(t) == DateValue(t, last.sortBy)
    IN /\ Len(rows) = Len(input)
       /\ \A i \in Positions(rows) : \A j \in Positions(rows) :
            i < j => date(rows[i]) <= date(rows[j])
       /\ \A k \in Positions(input) :
            SelectSeq(rows, LAMBDA t : date(t) = date(input[k]))
              = SelectSeq(input, LAMBDA t : date(t) = date(input[k]))

C7_Witness ==
  /\ last.op = "list" /\ last.res = "ok" /\ last.sortBy = "dueDate"
  /\ last.rows # SelectSeq(tasks, LAMBDA t : last.showCompleted \/ ~t.completed)
  /\ \E i \in Positions(last.rows) : \E j \in Positions(last.rows) :
       /\ i < j
       /\ DayjsValue(last.rows[i].dueDate) = DayjsValue(last.rows[j].dueDate)
       /\ last.rows[i] # last.rows[j]

\* C8: once startup is over the store holds a task sequence, and no operation
\* after startup ends the program with an error.
C8_LoadToleratesMissingTasks ==
  /\ pc = "menu" => data.hasTasks
  /\ pc = "crashed" => last.op = "boot"

\* C9: Update leaves the number of tasks, every task's id and createdAt and
\* every task but the updated one as they were; and every step either keeps
\* each position's id and createdAt or only takes tasks out.
C9_UpdateKeepsIdentity ==
  [][ /\ last'.op = "update" =>
            /\ Len(data'.tasks) = Len(tasks)
            /\ \A i \in Positions(tasks) :
                 /\ SameIdentity(tasks[i], data'.tasks[i])
                 /\ i # FindIndex(tasks, last'.arg) => data'.tasks[i] = tasks[i]
      /\ \/ /\ Len(data'.tasks) >= Len(tasks)
            /\ \A i \in Positions(tasks) : SameIdentity(tasks[i], data'.tasks[i])
         \/ IsRemoval(tasks, data'.tasks)
    ]_vars

C9_Witness ==
  /\ last.op = "update" /\ last.res = "ok"
  /\ Len(tasks) = 2
  /\ FindIndex(tasks, last.arg) = 2
  /\ tasks[2].title = <<" ">>

\* C10: a step either keeps every completed task completed at its position, or
\* only takes tasks out and leaves the others untouched.
C10_CompletionMonotonic ==
  [][ \/ /\ Len(data'.tasks) >= Len(tasks)
         /\ \A i \in Positions(tasks) :
              /\ SameIdentity(tasks[i], data'.tasks[i])
              /\ tasks[i].completed => data'.tasks[i].completed
      \/ IsRemoval(tasks, data'.tasks)
    ]_vars

C10_Witness ==
  /\ last.op = "update" /\ last.res = "ok"
  /\ \E i \in Positions(tasks) :
       i = FindIndex(tasks, last.arg) /\ tasks[i].completed

=============================================================================
